---- MODULE Spec2Model ----
(***************************************************************************)
(* Model of utils/process.py: the autoprocess scheduling loop, the worker  *)
(* executing process() inside the pebble pool, and the completion callback *)
(* processing_finished, which runs on the pool's threads and so interleaves *)
(* with the loop statement by statement.                                    *)
(***************************************************************************)
EXTENDS Integers, Sequences, FiniteSets, TLC

\* ---- bounds of the model ------------------------------------------------
NJobs == 2          \* jobs in the task table, identifiers 1..NJobs
MaxDispatch == 2    \* pool.schedule calls explored in one run
MaxParallel == 2    \* largest --parallel value explored
MaxCountCfg == 1    \* largest cfg.cuckoo.max_analysis_count explored

Jobs == 1..NJobs
Futures == 1..MaxDispatch

\* lib.cuckoo.core.database status constants imported at line 35
TASK_COMPLETED == "completed"
TASK_FAILED_PROCESSING == "failed_processing"
TASK_REPORTED == "reported"
Statuses == {TASK_COMPLETED, TASK_FAILED_PROCESSING, TASK_REPORTED}

\* the exceptions future.result() raises for a failed execution, one per
\* except clause of processing_finished (lines 168, 171, 174)
Failures == {"TimeoutError", "ProcessExpired", "Exception"}

None == 0

VARIABLES
    parallel,            \* autoprocess argument
    failed_processing,   \* autoprocess argument
    maxcount,            \* cfg.cuckoo.max_analysis_count
    freespace,           \* cfg.cuckoo.freespace is non-zero
    status,              \* Task.status of every job in the database
    pending_future_map,  \* future -> task id (None: no key)
    pending_task_id_map, \* task id -> future (None: no key)
    count,               \* autoprocess local
    tasks,               \* autoprocess local: result of db.list_tasks
    idx,                 \* position of the for loop in tasks
    pc,                  \* position of autoprocess
    pool,                \* "unbound", "open", "closed", "joined"
    exc,                 \* exception travelling out of the try body
    exit,                \* how autoprocess ended
    futures,             \* one record per pool.schedule call
    iter                 \* what the current loop iteration has done, and the
                         \* jobs that waited in the store when it queried

vars == <<parallel, failed_processing, maxcount, freespace, status,
          pending_future_map, pending_task_id_map, count, tasks, idx, pc,
          pool, exc, exit, futures, iter>>

cfgvars == <<parallel, failed_processing, maxcount, freespace>>
mapvars == <<pending_future_map, pending_task_id_map>>
loopvars == <<count, tasks, idx>>
exitvars == <<pool, exc, exit>>

FreshIter == [low |-> FALSE, queries |-> 0, dispatches |-> 0, waiting |-> {}]

Init ==
    /\ parallel \in 1..MaxParallel
    /\ failed_processing \in BOOLEAN
    /\ maxcount \in 0..MaxCountCfg
    /\ freespace \in BOOLEAN
    /\ status \in [Jobs -> Statuses]
    /\ pending_future_map = [f \in Futures |-> None]
    /\ pending_task_id_map = [j \in Jobs |-> None]
    /\ count = 0
    /\ tasks = <<>>
    /\ idx = 0
    /\ pc = "memory_limit"
    /\ pool = "unbound"
    /\ exc = "none"
    /\ exit = "none"
    /\ futures = <<>>
    /\ iter = FreshIter

\* ---- helpers -------------------------------------------------------------
RECURSIVE SortedPrefix(_, _)
\* the `limit` smallest elements of S in ascending order
SortedPrefix(S, limit) ==
    IF S = {} \/ limit = 0 THEN <<>>
    ELSE LET m == CHOOSE x \in S : \A y \in S : x <= y
         IN <<m>> \o SortedPrefix(S \ {m}, limit - 1)

\* Task.completed_on: the jobs completed in the order of their identifiers
completed_on(j) == j

\* db.list_tasks(status=st, limit=limit, order_by=Task.completed_on.asc())
list_tasks(st, limit) ==
    LET rows == {j \in Jobs : status[j] = st}
        keys == {completed_on(j) : j \in rows}
        byKey(k) == CHOOSE j \in rows : completed_on(j) = k
        order == SortedPrefix(keys, limit)
    IN [i \in 1..Len(order) |-> byKey(order[i])]

\* the status the loop polls for (lines 214-217)
SourceStatus ==
    IF failed_processing THEN TASK_FAILED_PROCESSING ELSE TASK_COMPLETED

\* the comparison of line 192 off by one
LoopConditionInclusive == count <= maxcount \/ maxcount = 0

\* while count < maxcount or not maxcount (line 192)
LoopCondition == count < maxcount \/ maxcount = 0

\* len(pending_task_id_map) (line 211)
PendingLen == Cardinality({j \in Jobs : pending_task_id_map[j] # None})

\* the comparison of line 211 off by one
PoolFullStrict == PendingLen > parallel

\* if len(pending_task_id_map) >= parallel (line 211)
PoolFull == PendingLen >= parallel

\* the lookup of line 222 never finding the identifier
InFlightNever(t) == FALSE

\* if pending_task_id_map.get(task.id) (line 222)
InFlight(t) == pending_task_id_map[t] # None

\* the future created by the latest pool.schedule call
CurFuture == Len(futures)

NewFuture(t) ==
    [task |-> t, stage |-> "running", outcome |-> "none", cbreg |-> FALSE,
     cb |-> "idle", task_id |-> None, writes |-> 0, removed |-> 0]

Resolved(f) == futures[f].stage = "resolved"

\* the callback of f is over: it returned, or an exception ended it
CbEnded(f) == futures[f].cb \in {"done", "raised"}

\* every execution has resolved and its callback is over
Drained == \A f \in 1..Len(futures) : Resolved(f) /\ CbEnded(f)

\* ---- autoprocess ---------------------------------------------------------
\* line 188: memory_limit() returns, or raises out of get_memory/setrlimit
MemoryLimit ==
    /\ pc = "memory_limit"
    /\ \E raised \in BOOLEAN :
          IF raised
          THEN /\ exc' = "Exception"
               /\ pc' = "except"
          ELSE /\ exc' = exc
               /\ pc' = "pool"
    /\ UNCHANGED <<cfgvars, status, mapvars, loopvars, pool, exit, futures, iter>>

\* line 190: with pebble.ProcessPool(...) as pool
EnterPool ==
    /\ pc = "pool"
    /\ pool' = "open"
    /\ pc' = "while"
    /\ UNCHANGED <<cfgvars, status, mapvars, loopvars, exc, exit, futures, iter>>

\* line 192: the loop condition, at the start of every iteration
While ==
    /\ pc = "while"
    /\ iter' = FreshIter
    /\ pc' = IF LoopCondition THEN "disk_check" ELSE "with_exit"
    /\ UNCHANGED <<cfgvars, status, mapvars, loopvars, exitvars, futures>>

\* lines 197-208 without the continue of line 208
DiskCheckFallsThrough ==
    /\ pc = "disk_check"
    /\ \E need_space \in BOOLEAN :
          iter' = [iter EXCEPT !.low = freespace /\ need_space]
    /\ pc' = "full_check"
    /\ UNCHANGED <<cfgvars, status, mapvars, loopvars, exitvars, futures>>

\* lines 197-208: free_space_monitor, when cfg.cuckoo.freespace is set
DiskCheck ==
    /\ pc = "disk_check"
    /\ \E need_space \in BOOLEAN :
          IF freespace /\ need_space
          THEN /\ iter' = [iter EXCEPT !.low = TRUE]
               /\ pc' = "sleep60"
          ELSE /\ iter' = iter
               /\ pc' = "full_check"
    /\ UNCHANGED <<cfgvars, status, mapvars, loopvars, exitvars, futures>>

\* lines 207-208: time.sleep(60); continue
Sleep60 ==
    /\ pc = "sleep60"
    /\ pc' = "while"
    /\ UNCHANGED <<cfgvars, status, mapvars, loopvars, exitvars, futures, iter>>

\* lines 214 onwards without the check of lines 211-213
FullCheckNeverFull ==
    /\ pc = "full_check"
    /\ pc' = "query"
    /\ UNCHANGED <<cfgvars, status, mapvars, loopvars, exitvars, futures, iter>>

\* lines 211-213
FullCheck ==
    /\ pc = "full_check"
    /\ pc' = IF PoolFull THEN "sleep_full" ELSE "query"
    /\ UNCHANGED <<cfgvars, status, mapvars, loopvars, exitvars, futures, iter>>

\* lines 212-213: time.sleep(5); continue
SleepFull ==
    /\ pc = "sleep_full"
    /\ pc' = "while"
    /\ UNCHANGED <<cfgvars, status, mapvars, loopvars, exitvars, futures, iter>>

\* lines 214-218 with the rows iterated newest first
QueryNewestFirst ==
    /\ pc = "query"
    /\ LET rows == list_tasks(SourceStatus, parallel)
       IN tasks' = [i \in 1..Len(rows) |-> rows[Len(rows) + 1 - i]]
    /\ idx' = 1
    /\ iter' = [iter EXCEPT !.queries = @ + 1,
                            !.waiting = {j \in Jobs : status[j] = SourceStatus /\ ~InFlight(j)}]
    /\ pc' = "for"
    /\ UNCHANGED <<cfgvars, status, mapvars, count, exitvars, futures>>

\* lines 214-218: db.list_tasks
Query ==
    /\ pc = "query"
    /\ tasks' = list_tasks(SourceStatus, parallel)
    /\ idx' = 1
    /\ iter' = [iter EXCEPT !.queries = @ + 1,
                            !.waiting = {j \in Jobs : status[j] = SourceStatus /\ ~InFlight(j)}]
    /\ pc' = "for"
    /\ UNCHANGED <<cfgvars, status, mapvars, count, exitvars, futures>>

\* lines 220-223 and 250: one step of the for loop over tasks
For ==
    /\ pc = "for"
    /\ IF idx > Len(tasks)
       THEN /\ pc' = "idle"
            /\ idx' = idx
       ELSE IF InFlight(tasks[idx])
       THEN /\ pc' = "for"
            /\ idx' = idx + 1
       ELSE /\ pc' = "schedule"
            /\ idx' = idx
    /\ UNCHANGED <<cfgvars, status, mapvars, count, tasks, exitvars, futures, iter>>

\* lines 250-252: nothing added, time.sleep(5)
Idle ==
    /\ pc = "idle"
    /\ pc' = "while"
    /\ UNCHANGED <<cfgvars, status, mapvars, loopvars, exitvars, futures, iter>>

\* lines 224-236: pool.schedule(process, args, kwargs, timeout=...)
Schedule ==
    /\ pc = "schedule"
    /\ Len(futures) < MaxDispatch
    /\ futures' = Append(futures, NewFuture(tasks[idx]))
    /\ iter' = [iter EXCEPT !.dispatches = @ + 1]
    /\ pc' = "map_future"
    /\ UNCHANGED <<cfgvars, status, mapvars, loopvars, exitvars>>

\* line 237: pending_future_map[future] = task.id
MapFuture ==
    /\ pc = "map_future"
    /\ pending_future_map' = [pending_future_map EXCEPT ![CurFuture] = tasks[idx]]
    /\ pc' = "map_task"
    /\ UNCHANGED <<cfgvars, status, pending_task_id_map, loopvars, exitvars, futures, iter>>

\* line 238: pending_task_id_map[task.id] = future
MapTask ==
    /\ pc = "map_task"
    /\ pending_task_id_map' = [pending_task_id_map EXCEPT ![tasks[idx]] = CurFuture]
    /\ pc' = "add_done_callback"
    /\ UNCHANGED <<cfgvars, status, pending_future_map, loopvars, exitvars, futures, iter>>

\* line 239: future.add_done_callback(processing_finished); a future that is
\* already done runs the callback inside this call, on the loop's thread
AddDoneCallback ==
    /\ pc = "add_done_callback"
    /\ futures' = [futures EXCEPT ![CurFuture].cbreg = TRUE]
    /\ pc' = IF Resolved(CurFuture) THEN "in_callback" ELSE "count"
    /\ UNCHANGED <<cfgvars, status, mapvars, loopvars, exitvars, iter>>

\* line 239, continued: add_done_callback returns when the callback has
CallbackReturns ==
    /\ pc = "in_callback"
    /\ CbEnded(CurFuture)
    /\ pc' = "count"
    /\ UNCHANGED <<cfgvars, status, mapvars, loopvars, exitvars, futures, iter>>

\* lines 243-244: count += 1; added = True
Count ==
    /\ pc = "count"
    /\ count' = count + 1
    /\ pc' = "unlink"
    /\ UNCHANGED <<cfgvars, status, mapvars, tasks, idx, exitvars, futures, iter>>

\* lines 245-248 without the break of line 249: the for loop goes on
UnlinkNoBreak ==
    /\ pc = "unlink"
    /\ pc' = "for"
    /\ idx' = idx + 1
    /\ UNCHANGED <<cfgvars, status, mapvars, count, tasks, exitvars, futures, iter>>

\* lines 245-249: delete the binary copy; break
Unlink ==
    /\ pc = "unlink"
    /\ pc' = "while"
    /\ UNCHANGED <<cfgvars, status, mapvars, loopvars, exitvars, futures, iter>>

\* the exceptions that travel out of the calls of the loop body: the operator's
\* interrupt out of time.sleep, a failure of free_space_monitor, db.list_tasks,
\* db.view_sample, pool.schedule or os.unlink, memory exhaustion while the
\* task list is built
Raises(at) ==
    CASE at \in {"sleep60", "sleep_full", "idle"} -> {"KeyboardInterrupt"}
      [] at \in {"disk_check", "schedule", "unlink"} -> {"Exception"}
      [] at = "query" -> {"Exception", "MemoryError"}
      [] OTHER -> {}

\* an exception leaves the loop body (lines 192-252)
Raise ==
    /\ \E k \in Raises(pc) : exc' = k
    /\ pc' = "with_exit"
    /\ UNCHANGED <<cfgvars, status, mapvars, loopvars, pool, exit, futures, iter>>

\* line 190, leaving the with block: ProcessPool.__exit__ calls close()
WithExit ==
    /\ pc = "with_exit"
    /\ pool' = "closed"
    /\ pc' = "with_join"
    /\ UNCHANGED <<cfgvars, status, mapvars, loopvars, exc, exit, futures, iter>>

\* line 190, leaving the with block: ProcessPool.__exit__ calls join(),
\* which returns once the executions in the pool have drained
WithJoin ==
    /\ pc = "with_join"
    /\ Drained
    /\ pool' = "joined"
    /\ pc' = "except"
    /\ UNCHANGED <<cfgvars, status, mapvars, loopvars, exc, exit, futures, iter>>

\* variant: the interrupt is caught and printed like any other exception
HandlerSwallows(k) ==
    CASE k = "MemoryError" -> "SystemExit"
      [] OTHER -> "return"

\* how autoprocess ends for the exception caught at lines 253-265
Handler(k) ==
    CASE k = "KeyboardInterrupt" -> "KeyboardInterrupt"   \* raise
      [] k = "MemoryError" -> "SystemExit"                \* sys.exit(1)
      [] OTHER -> "return"                                \* print_exc, or no exception

\* lines 253-265
Except ==
    /\ pc = "except"
    /\ exit' = Handler(exc)
    /\ pc' = "finally"
    /\ UNCHANGED <<cfgvars, status, mapvars, loopvars, pool, exc, futures, iter>>

\* the name pool is bound when the finally clause reads it (line 267)
PoolBound == pool # "unbound"

\* lines 266-268: pool.close(); pool.join()
Finally ==
    /\ pc = "finally"
    /\ IF PoolBound
       THEN /\ Drained
            /\ pool' = "joined"
            /\ exit' = exit
       ELSE /\ pool' = pool
            /\ exit' = "UnboundLocalError"
    /\ pc' = "done"
    /\ UNCHANGED <<cfgvars, status, mapvars, loopvars, exc, futures, iter>>

\* ---- process(), inside a worker of the pool ------------------------------
\* lines 93-110: the stages ran; Database().set_status(task_id, TASK_REPORTED)
WorkerReport(f) ==
    /\ futures[f].stage = "running"
    /\ status' = [status EXCEPT ![futures[f].task] = TASK_REPORTED]
    /\ futures' = [futures EXCEPT ![f].stage = "reported"]
    /\ UNCHANGED <<cfgvars, mapvars, loopvars, pc, exitvars, iter>>

\* lines 112-123: cleanup done, process() returns
WorkerReturn(f) ==
    /\ futures[f].stage = "reported"
    /\ futures' = [futures EXCEPT ![f].stage = "resolved", ![f].outcome = "success"]
    /\ UNCHANGED <<cfgvars, status, mapvars, loopvars, pc, exitvars, iter>>

\* the stages at which an execution can end without returning: a stage raises
\* (lines 93-109), os.unlink raises (lines 113-117), the timeout expires or
\* the worker process dies
FailStages == {"running", "reported"}

WorkerFail(f) ==
    /\ futures[f].stage \in FailStages
    /\ futures' = [futures EXCEPT ![f].stage = "resolved", ![f].outcome = "failure"]
    /\ UNCHANGED <<cfgvars, status, mapvars, loopvars, pc, exitvars, iter>>

\* ---- processing_finished(future) -----------------------------------------
\* line 164: task_id = pending_future_map.get(future)
CbGet(f) ==
    /\ Resolved(f)
    /\ futures[f].cbreg
    /\ futures[f].cb = "idle"
    /\ futures' = [futures EXCEPT ![f].task_id = pending_future_map[f],
                                  ![f].cb = "result"]
    /\ UNCHANGED <<cfgvars, status, mapvars, loopvars, pc, exitvars, iter>>

\* set_status called on the success path too
WritesAlways(outcome) == TRUE

\* no except clause calling set_status
WritesNever(outcome) == FALSE

\* future.result() raises (line 166) and an except clause runs
WritesFailed(outcome) == outcome = "failure"

\* the status each except clause hands to set_status (lines 170, 173, 176)
HandlerStatus(e) == TASK_FAILED_PROCESSING

\* lines 165-176: future.result() and the except clause that catches e
CbResult(f) ==
    /\ futures[f].cb = "result"
    /\ IF WritesFailed(futures[f].outcome)
       THEN /\ \E e \in Failures :
                  status' = [status EXCEPT ![futures[f].task_id] = HandlerStatus(e)]
            /\ futures' = [futures EXCEPT ![f].writes = @ + 1, ![f].cb = "del_future"]
       ELSE /\ status' = status
            /\ futures' = [futures EXCEPT ![f].cb = "del_future"]
    /\ UNCHANGED <<cfgvars, mapvars, loopvars, pc, exitvars, iter>>

\* the callback without the deletion of line 178
CbDelFutureSkipped(f) ==
    /\ futures[f].cb = "del_future"
    /\ futures' = [futures EXCEPT ![f].cb = "del_task"]
    /\ UNCHANGED <<cfgvars, status, mapvars, loopvars, pc, exitvars, iter>>

\* line 178: del pending_future_map[future]
CbDelFuture(f) ==
    /\ futures[f].cb = "del_future"
    /\ pending_future_map[f] # None
    /\ pending_future_map' = [pending_future_map EXCEPT ![f] = None]
    /\ futures' = [futures EXCEPT ![f].cb = "del_task"]
    /\ UNCHANGED <<cfgvars, status, pending_task_id_map, loopvars, pc, exitvars, iter>>

\* line 179 reached on the success path only
CbDelTaskOnSuccess(f) ==
    /\ futures[f].cb = "del_task"
    /\ pending_task_id_map[futures[f].task_id] # None
    /\ IF futures[f].outcome = "success"
       THEN /\ pending_task_id_map' =
                  [pending_task_id_map EXCEPT ![futures[f].task_id] = None]
            /\ futures' = [futures EXCEPT ![f].removed = @ + 1, ![f].cb = "done"]
       ELSE /\ pending_task_id_map' = pending_task_id_map
            /\ futures' = [futures EXCEPT ![f].cb = "done"]
    /\ UNCHANGED <<cfgvars, status, pending_future_map, loopvars, pc, exitvars, iter>>

\* line 179: del pending_task_id_map[task_id]
CbDelTask(f) ==
    /\ futures[f].cb = "del_task"
    /\ pending_task_id_map[futures[f].task_id] # None
    /\ pending_task_id_map' = [pending_task_id_map EXCEPT ![futures[f].task_id] = None]
    /\ futures' = [futures EXCEPT ![f].removed = @ + 1, ![f].cb = "done"]
    /\ UNCHANGED <<cfgvars, status, pending_future_map, loopvars, pc, exitvars, iter>>

\* lines 170, 173, 176 when Database().set_status raises: no handler of the
\* callback catches it, so lines 178-179 are not reached and the exception
\* ends the callback (the pool's thread logs it and goes on)
CbSetStatusRaises(f) ==
    /\ futures[f].cb = "result"
    /\ WritesFailed(futures[f].outcome)
    /\ futures' = [futures EXCEPT ![f].cb = "raised"]
    /\ UNCHANGED <<cfgvars, status, mapvars, loopvars, pc, exitvars, iter>>

\* ---- the system -----------------------------------------------------------
Loop ==
    \/ MemoryLimit \/ EnterPool \/ While \/ DiskCheck \/ Sleep60 \/ FullCheck
    \/ SleepFull \/ Query \/ For \/ Idle \/ Schedule \/ MapFuture \/ MapTask
    \/ AddDoneCallback \/ CallbackReturns \/ Count \/ Unlink
    \/ Raise \/ WithExit \/ WithJoin \/ Except \/ Finally

Worker(f) ==
    /\ f <= Len(futures)
    /\ (WorkerReport(f) \/ WorkerReturn(f) \/ WorkerFail(f))

Callback(f) ==
    /\ f <= Len(futures)
    /\ (CbGet(f) \/ CbResult(f) \/ CbDelFuture(f) \/ CbDelTask(f))

Next ==
    \/ Loop
    \/ \E f \in Futures : Worker(f)
    \/ \E f \in Futures : Callback(f)

Spec == Init /\ [][Next]_vars

\* processing_finished with a job store whose writes can fail
CallbackDbFail(f) ==
    /\ f <= Len(futures)
    /\ CbSetStatusRaises(f)

NextDbFail ==
    \/ Next
    \/ \E f \in Futures : CallbackDbFail(f)

DbFailSpec == Init /\ [][NextDbFail]_vars

\* The loop's thread, the worker processes and the pool's threads all keep
\* running: the pool resolves every execution it accepted and delivers its
\* callback.
Fairness ==
    /\ WF_vars(Loop)
    /\ \A f \in Futures : WF_vars(Worker(f)) /\ WF_vars(Callback(f))

LiveSpec == Init /\ [][Next]_vars /\ Fairness

\* ---- properties ------------------------------------------------------------
Dispatched == 1..Len(futures)

\* executions of job j whose completion callback has not returned
Unfinished(j) == {f \in Dispatched : futures[f].task = j /\ futures[f].cb # "done"}

ExitPcs == {"with_exit", "with_join", "except", "finally", "done"}

\* C1: a job identifier with an unresolved entry in pending_task_id_map is
\* never handed to pool.schedule again: the loop reaches line 236 only for an
\* identifier without an entry, and no job ever has two executions whose
\* callbacks have not returned.
C1_AtMostOneInFlight ==
    /\ pc = "schedule" => pending_task_id_map[tasks[idx]] = None
    /\ \A j \in Jobs : Cardinality(Unfinished(j)) <= 1

\* the store returned an in-flight job first and the loop skipped it
C1_Witness ==
    /\ pc \in {"for", "schedule"}
    /\ idx > 1
    /\ pending_task_id_map[tasks[1]] # None
    /\ status[tasks[1]] = SourceStatus

\* C2: the in-flight table never holds more than `parallel` entries.
C2_ConcurrencyCeiling ==
    Cardinality({j \in Jobs : pending_task_id_map[j] # None}) <= parallel

\* the table is full and the loop backs off at line 212
C2_Witness ==
    /\ pc = "sleep_full"
    /\ parallel = MaxParallel
    /\ Cardinality({j \in Jobs : pending_task_id_map[j] # None}) = parallel

\* C3: an iteration whose disk check reports too little space queries the
\* store zero times and dispatches nothing; it sleeps, goes back to the loop
\* condition and from there to a new disk check.
C3_Backpressure ==
    /\ [](iter.low => iter.queries = 0 /\ iter.dispatches = 0)
    /\ [][pc = "sleep60" => pc' \in {"sleep60", "while", "with_exit"}]_vars
    /\ [][pc = "while" /\ iter.low => pc' \in {"while", "disk_check"}]_vars

\* the loop backs off for disk space while an execution is in flight
C3_Witness ==
    /\ pc = "sleep60"
    /\ iter.low
    /\ \E j \in Jobs : pending_task_id_map[j] # None

\* C4: the callback of an execution writes the job's state at most once: once,
\* to failed, when the execution failed, and not at all when it succeeded.
C4_CompletionWrite ==
    \A f \in Dispatched :
        /\ futures[f].cb \in {"idle", "result"} => futures[f].writes = 0
        /\ futures[f].cb \in {"del_future", "del_task", "done"} =>
              futures[f].writes = (IF futures[f].outcome = "failure" THEN 1 ELSE 0)
        /\ futures[f].cb \in {"del_future", "del_task"} /\ futures[f].outcome = "failure" =>
              status[futures[f].task] = TASK_FAILED_PROCESSING

\* one callback has returned after a failure, another after a success
C4_Witness ==
    \E f, g \in Dispatched :
        /\ futures[f].cb = "done" /\ futures[f].outcome = "failure" /\ futures[f].writes = 1
        /\ futures[g].cb = "done" /\ futures[g].outcome = "success" /\ futures[g].writes = 0

TerminalStatus(f) ==
    IF futures[f].outcome = "success" THEN TASK_REPORTED ELSE TASK_FAILED_PROCESSING

\* the callback of execution f has returned: the job is in its terminal state
\* and has no in-flight entry
Settled(f) ==
    /\ f <= Len(futures)
    /\ futures[f].cb = "done"
    /\ status[futures[f].task] = TerminalStatus(f)
    /\ pending_future_map[f] = None
    /\ pending_task_id_map[futures[f].task] = None

C7_NoDoubleProcessing ==
    \A f, g \in Dispatched :
        f < g /\ futures[f].task = futures[g].task =>
            failed_processing /\ futures[f].outcome # "success"

\* C8: the only changes of a job's status are completed -> reported,
\* completed -> failed and failed -> reported.
C8_MonotonicTransitions ==
    [][\A j \in Jobs :
          status'[j] # status[j] =>
              <<status[j], status'[j]>> \in
                  {<<TASK_COMPLETED, TASK_REPORTED>>,
                   <<TASK_COMPLETED, TASK_FAILED_PROCESSING>>,
                   <<TASK_FAILED_PROCESSING, TASK_REPORTED>>}]_vars

\* C9: with a non-zero max_analysis_count no more executions are dispatched
\* than it allows and the loop is past its condition only below it; the loop
\* ends without an exception only when the count is reached, which never
\* happens for zero; when autoprocess is done every execution has drained.
C9_MaxCount ==
    /\ maxcount # 0 => count <= maxcount /\ Len(futures) <= maxcount
    /\ maxcount # 0 /\ pc \notin ExitPcs \union {"memory_limit", "pool", "while", "unlink"} =>
          count < maxcount
    /\ pc \in ExitPcs /\ exc = "none" => maxcount # 0 /\ count = maxcount
    /\ pc = "done" /\ pool # "unbound" => Drained

\* the limit is reached while an execution is still in flight
C9_Witness ==
    /\ pc = "with_join"
    /\ exc = "none"
    /\ count = maxcount
    /\ ~Drained

\* C10: autoprocess never ends without the pool having been shut down, and
\* the finally clause never fails on an unbound pool.
C10_ShutdownOnEveryExit ==
    pc = "done" => pool = "joined" /\ exit # "UnboundLocalError"

\* job k is in the source state and was never handed to the pool
NeverDispatched(k) ==
    /\ status[k] = SourceStatus
    /\ \A f \in Dispatched : futures[f].task # k

\* C11: a failed execution does not keep the other eligible jobs from being
\* dispatched. In the form a finite run decides: the loop never hands a job
\* that failed and is again in the source state to the pool once more while
\* an eligible job that was never dispatched is still waiting in the store.
C11_OthersStillDispatched ==
    pc = "map_future" /\ status[futures[CurFuture].task] = SourceStatus =>
        \/ \A f \in 1..(CurFuture - 1) :
              futures[f].task = futures[CurFuture].task => futures[f].outcome # "failure"
        \/ \A k \in Jobs : ~NeverDispatched(k)

\* C12: an interrupt raised in the loop leaves autoprocess as
\* KeyboardInterrupt, not swallowed; the executions in flight drain through
\* the shutdown of the pool before autoprocess is done; and while the
\* interrupt travels out, a job's state changes only through a worker's
\* report or through the callback of an execution that itself failed.
C12_InterruptPropagates ==
    /\ [](exc = "KeyboardInterrupt" /\ pc = "done" =>
              exit = "KeyboardInterrupt" /\ pool = "joined" /\ Drained)
    /\ [][exc = "KeyboardInterrupt" =>
              \A j \in Jobs :
                  status'[j] = TASK_FAILED_PROCESSING /\ status[j] # TASK_FAILED_PROCESSING =>
                      \E f \in Dispatched :
                          /\ futures[f].task = j
                          /\ futures[f].outcome = "failure"
                          /\ futures[f].cb = "result"
                          /\ futures'[f].writes = futures[f].writes + 1]_vars

\* the interrupt has left the loop and the pool waits for an execution that
\* is still running
C12_Witness ==
    /\ pc = "with_join"
    /\ exc = "KeyboardInterrupt"
    /\ \E f \in Dispatched : futures[f].stage = "running"

\* C13: a failing resource query does not end the scheduler: when
\* memory_limit (get_memory) fails, autoprocess goes on to create the pool
\* and enter the loop, and when the disk query fails the iteration stays in
\* the loop, backing off or going on to the in-flight check.
C13_ResourceFailureTolerated ==
    [][/\ pc = "memory_limit" => pc' \in {"memory_limit", "pool"}
       /\ pc = "disk_check" => pc' \in {"disk_check", "sleep60", "full_check"}]_vars

\* the loop's sleeps: lines 207, 212 and 252
SleepPcs == {"sleep60", "sleep_full", "idle"}

\* C14: an iteration dispatches at most one job however many candidates the
\* query returned; once it has dispatched it neither examines another
\* candidate nor sleeps but goes straight to the next iteration; an
\* iteration that queried and dispatched nothing reaches the next iteration
\* only through the sleep of line 252.
C14_OneAtATime ==
    /\ [](iter.dispatches <= 1)
    /\ [](iter.dispatches = 1 => pc \notin SleepPcs \union {"query", "for", "schedule"})
    /\ [][pc = "unlink" => pc' \in {"unlink", "while", "with_exit"}]_vars
    /\ [][pc' = "while" /\ pc # "while" /\ iter.queries = 1 /\ iter.dispatches = 0 =>
              pc = "idle"]_vars

\* the query returned two candidates, the first was dispatched and the
\* second, not in flight either, is left for a later iteration
C14_Witness ==
    /\ pc = "unlink"
    /\ Len(tasks) = 2
    /\ idx = 1
    /\ ~InFlight(tasks[2])
    /\ status[tasks[2]] = SourceStatus

\* the positions of the loop between choosing a candidate and the break
DispatchPcs ==
    {"schedule", "map_future", "map_task", "add_done_callback", "in_callback",
     "count", "unlink"}

\* C15: the job an iteration dispatches is the first candidate of the
\* oldest-first list that is not in the in-flight table: every candidate
\* before it is older and was in flight, and no job that waited in the
\* source state, not in flight, when the iteration queried the store is
\* older than the job dispatched.
C15_OldestFirst ==
    pc \in DispatchPcs =>
        /\ pc # "schedule" => futures[CurFuture].task = tasks[idx]
        /\ \A i \in 1..(idx - 1) :
              /\ completed_on(tasks[i]) < completed_on(tasks[idx])
              /\ tasks[i] \notin iter.waiting
        /\ \A k \in iter.waiting : completed_on(k) >= completed_on(tasks[idx])

\* two jobs waited at the query and one of them has been handed to the pool
C15_Witness ==
    /\ pc = "map_future"
    /\ Cardinality(iter.waiting) >= 2
    /\ futures[CurFuture].task \in iter.waiting

\* a job is in flight while another one waits in the source state
OneRunsOneWaits ==
    \E a, b \in Jobs :
        /\ a # b
        /\ InFlight(a)
        /\ status[b] = SourceStatus /\ ~InFlight(b)

\* C16 as stated: with a concurrency limit of 1, while A is in flight and B
\* waits, the loop goes on from the in-flight check to poll the store (and
\* then skips A and dispatches B).
C16_PollsWhileInFlight ==
    [][parallel = 1 /\ pc = "full_check" /\ OneRunsOneWaits =>
          pc' \in {"full_check", "query"}]_vars

\* C16, amended: with a concurrency limit of 1 the loop polls the store,
\* examines candidates and dispatches only while nothing is in flight; a
\* poll returns at most one job; and when the next job is dispatched the
\* callbacks of all earlier executions have returned.
C16_LimitOneSerialises ==
    parallel = 1 =>
        /\ pc \in {"query", "for", "schedule"} => PendingLen = 0
        /\ Len(tasks) <= 1
        /\ pc = "schedule" => \A f \in Dispatched : futures[f].cb = "done"

\* limit 1, A still in the source state and in flight, B waiting: the loop
\* backs off at line 212 instead of polling
C16_Witness ==
    /\ parallel = 1
    /\ pc = "sleep_full"
    /\ OneRunsOneWaits
    /\ \E a \in Jobs : InFlight(a) /\ status[a] = SourceStatus

\* C17: the worker writes no job state for an execution that does not end in
\* success: an execution in which the worker has already written the job's
\* state (line 110) never resolves as a failure.
C17_NoWriteOnFailure ==
    [][\A f \in Dispatched :
          futures[f].stage = "reported" => futures'[f].outcome # "failure"]_vars

\* C18: an iteration that queries the store while a job waits there in the
\* source state, not in flight, finds a candidate that is not in flight in
\* the rows it still has to examine, never ends in the sleep of line 252,
\* and goes on to the next iteration only after it has dispatched a job.
C18_AdmissionProgress ==
    /\ [](pc = "for" /\ iter.waiting # {} =>
              \E i \in idx..Len(tasks) : tasks[i] \in iter.waiting /\ ~InFlight(tasks[i]))
    /\ [](pc = "idle" => iter.waiting = {})
    /\ [][pc' = "while" /\ pc # "while" /\ iter.waiting # {} =>
              pc = "unlink" /\ iter.dispatches = 1]_vars

\* a full window whose first row was in flight and skipped still yields a
\* dispatch of the job that waited
C18_Witness ==
    /\ pc = "unlink"
    /\ iter.dispatches = 1
    /\ Len(tasks) = parallel
    /\ idx = parallel
    /\ idx > 1
    /\ tasks[idx] \in iter.waiting

\* C19: outside the window in which a dispatch is writing the tables, the
\* keys of pending_task_id_map are exactly the jobs handed to the pool whose
\* callback is not over yet, also when the failed-state write of a callback
\* raises; and the table is empty once the pool has drained.
C19_InFlightTableAccurate ==
    /\ pc \notin {"map_future", "map_task"} =>
          \A j \in Jobs :
              InFlight(j) <=> \E f \in Dispatched : futures[f].task = j /\ ~CbEnded(f)
    /\ pool = "joined" => PendingLen = 0

\* neither the dispatch (between lines 237 and 238) nor a callback (between
\* lines 178 and 179) is half way through its two table updates
TablesQuiescent ==
    /\ pc # "map_task"
    /\ \A f \in Dispatched : futures[f].cb # "del_task"

\* C20: whenever no dispatch and no callback is between its two table
\* updates, pending_future_map maps f to j exactly when pending_task_id_map
\* maps j to f, so the tables have the same size; and a callback that has
\* made its lookup found the job of its future.
C20_TablesInverse ==
    /\ TablesQuiescent =>
          /\ \A f \in Futures, j \in Jobs :
                pending_future_map[f] = j <=> pending_task_id_map[j] = f
          /\ Cardinality({f \in Futures : pending_future_map[f] # None}) = PendingLen
    /\ \A f \in Dispatched :
          futures[f].cb \notin {"idle", "raised"} =>
              futures[f].task_id # None /\ futures[f].task_id = futures[f].task

\* two executions are in the tables and the callback of one has just looked
\* up its job
C20_Witness ==
    /\ TablesQuiescent
    /\ PendingLen = 2
    /\ \E f \in Dispatched : futures[f].cb = "result" /\ futures[f].task_id = futures[f].task
====
